---- MODULE Spec2Model ----
(***************************************************************************)
(* Model of the two dependent stages of the document pipeline:             *)
(*   problem3/processor/process.py  (Extraction Driver + Extractor)        *)
(*   problem3/analyzer/analyze.py   (Corpus Aggregator)                    *)
(* connected by marker files on a shared filesystem.                       *)
(*                                                                         *)
(* Text is a sequence of one-character strings; a file name is such a      *)
(* sequence too.  A float is kept as the integer number of its last        *)
(* rounded decimal (round(x, 6) is an integer count of millionths).        *)
(***************************************************************************)
EXTENDS Integers, Sequences, FiniteSets, TLC

(***************************************************************************)
(* Characters                                                              *)
(***************************************************************************)
UpperSeq == <<"A","B","C","D","E","F","G","H","I","J","K","L","M",
              "N","O","P","Q","R","S","T","U","V","W","X","Y","Z">>

LowerSeq == <<"a","b","c","d","e","f","g","h","i","j","k","l","m",
              "n","o","p","q","r","s","t","u","v","w","x","y","z">>

DigitSeq == <<"0","1","2","3","4","5","6","7","8","9">>

\* the characters of the model in code point order
AsciiOrder == <<"\t", "\n", " ", "!", "\"", "'", "-", ".", "/">> \o DigitSeq
              \o <<"<", "=", ">", "?">> \o UpperSeq \o <<"_">> \o LowerSeq

Range(s) == {s[i] : i \in DOMAIN s}

Ord(c) == CHOOSE i \in DOMAIN AsciiOrder : AsciiOrder[i] = c

\* str.lower() on one character
Lower(c) == IF c \in Range(UpperSeq)
            THEN LowerSeq[CHOOSE i \in DOMAIN UpperSeq : UpperSeq[i] = c]
            ELSE c

LowerStr(s) == [i \in DOMAIN s |-> Lower(s[i])]

\* regex \w
IsWord(c) == c \in Range(UpperSeq) \cup Range(LowerSeq) \cup Range(DigitSeq) \cup {"_"}

\* regex \s
IsSpace(c) == c \in {" ", "\n", "\t"}

\* comparison of Python strings: code point order, a proper prefix is smaller
RECURSIVE StrLess(_, _)
StrLess(s, t) ==
    IF t = <<>> THEN FALSE
    ELSE IF s = <<>> THEN TRUE
    ELSE IF s[1] # t[1] THEN Ord(s[1]) < Ord(t[1])
    ELSE StrLess(Tail(s), Tail(t))

\* s[i:] of Python, for a 1-based position i
From(s, i) == SubSeq(s, i, Len(s))

\* s.startswith(p, i-1), case-insensitive
StartsWithCI(s, i, p) ==
    /\ i + Len(p) - 1 <= Len(s)
    /\ \A k \in 1..Len(p) : Lower(s[i + k - 1]) = Lower(p[k])

\* sorted() of a set of strings
RECURSIVE sorted(_)
sorted(S) ==
    IF S = {} THEN <<>>
    ELSE LET m == CHOOSE x \in S : \A y \in S \ {x} : StrLess(x, y)
         IN  <<m>> \o sorted(S \ {m})

(***************************************************************************)
(* round(num / den, 6) as a count of millionths (round(.., 3): thousandths)*)
(* Python rounds the double nearest to num/den; for the small quotients of *)
(* the model this is the exact quotient rounded half to even.              *)
(***************************************************************************)
RoundDiv(num, den, scale) ==
    LET q == (num * scale) \div den
        r == (num * scale) % den
    IN  IF 2 * r < den THEN q
        ELSE IF 2 * r > den THEN q + 1
        ELSE IF q % 2 = 0 THEN q ELSE q + 1

Million == 1000000
Thousand == 1000

(***************************************************************************)
(* Regular-expression helpers                                              *)
(***************************************************************************)
Chars == Range(AsciiOrder)

WordChars == {c \in Chars : IsWord(c)}

SpaceChars == {c \in Chars : IsSpace(c)}

Min(S) == CHOOSE x \in S : \A y \in S : x <= y

\* the last position of the longest run of characters of S starting at i
\* (i - 1 when s[i] is not in S): a greedy [S]* at i
RECURSIVE RunEnd(_, _, _)
RunEnd(s, i, S) ==
    IF i <= Len(s) /\ s[i] \in S THEN RunEnd(s, i + 1, S) ELSE i - 1

\* a sequence given as a function, with every element computed once
Tup(f) == <<>> \o f

\* the positions of s in increasing order: range(len(s)), from 1
Indices(s) == [i \in 1..Len(s) |-> i]

\* where the maximal runs of characters of S of length >= minRun start
RunStarts(s, S, minRun) ==
    LET isStart(i) == /\ s[i] \in S
                      /\ (i = 1 \/ s[i - 1] \notin S)
                      /\ RunEnd(s, i, S) - i + 1 >= minRun
    IN  SelectSeq(Indices(s), isStart)

\* re.findall(r"\b\w+\b", s): the maximal runs of word characters, in order
FindWords(s) ==
    LET starts == RunStarts(s, WordChars, 1)
    IN  Tup([k \in DOMAIN starts |->
                SubSeq(s, starts[k], RunEnd(s, starts[k], WordChars))])

\* re.split(r"[seps]{minRun,}", s): the pieces between the maximal runs of
\* separators of length >= minRun (a greedy match takes a whole run)
ReSplit(s, seps, minRun) ==
    LET starts == RunStarts(s, seps, minRun)
        n == Len(starts)
        pieceStart(k) == IF k = 1 THEN 1
                         ELSE RunEnd(s, starts[k - 1], seps) + 1
        pieceEnd(k) == IF k = n + 1 THEN Len(s) ELSE starts[k] - 1
    IN  Tup([k \in 1..(n + 1) |-> SubSeq(s, pieceStart(k), pieceEnd(k))])

\* [p for p in pieces if p.strip()]
NonBlank(pieces) ==
    LET keep(p) == \E k \in DOMAIN p : ~IsSpace(p[k])
    IN  SelectSeq(pieces, keep)

RECURSIVE SumLen(_)
SumLen(ws) == IF ws = <<>> THEN 0 ELSE Len(ws[1]) + SumLen(Tail(ws))

(***************************************************************************)
(* Document Extractor: process.py                                          *)
(***************************************************************************)
\* where a match of <tag[^>]*>.*?</tag> that starts at i ends (0: no match)
BlockEnd(s, i, tag) ==
    LET open  == <<"<">> \o tag
        close == <<"<", "/">> \o tag \o <<">">>
    IN  IF ~StartsWithCI(s, i, open) THEN 0
        ELSE LET gts == {j \in (i + Len(open))..Len(s) : s[j] = ">"}
             IN  IF gts = {} THEN 0
                 ELSE LET ks == {k \in (Min(gts) + 1)..Len(s) :
                                    StartsWithCI(s, k, close)}
                      IN  IF ks = {} THEN 0
                          ELSE Min(ks) + Len(close) - 1

\* re.sub(r"<tag[^>]*>.*?</tag>", "", s, flags=DOTALL|IGNORECASE) from i:
\* the text up to the leftmost match is kept, the match is dropped
RECURSIVE RemoveBlocks(_, _, _)
RemoveBlocks(s, i, tag) ==
    LET ms == {j \in i..Len(s) : BlockEnd(s, j, tag) > 0}
    IN  IF ms = {} THEN From(s, i)
        ELSE SubSeq(s, i, Min(ms) - 1)
             \o RemoveBlocks(s, BlockEnd(s, Min(ms), tag) + 1, tag)

\* [^'"\s>]
AttrValueChars == Chars \ ({"'", "\"", ">"} \cup SpaceChars)

\* where the value of a match of attr['"]?([^'"\s>]+) that starts at i
\* begins, and where it ends (end < begin: no match at i)
AttrBegin(s, i, attr) ==
    LET p0 == i + Len(attr)
    IN  IF p0 <= Len(s) /\ s[p0] \in {"'", "\""} THEN p0 + 1 ELSE p0

AttrMatch(s, i, attr) ==
    /\ StartsWithCI(s, i, attr)
    /\ RunEnd(s, AttrBegin(s, i, attr), AttrValueChars) >= AttrBegin(s, i, attr)

\* re.findall(attr + r'[\'"]?([^\'"\s>]+)', s, flags=IGNORECASE) from i
RECURSIVE FindAttr(_, _, _)
FindAttr(s, i, attr) ==
    LET ms == {j \in i..Len(s) : AttrMatch(s, j, attr)}
    IN  IF ms = {} THEN <<>>
        ELSE LET p == AttrBegin(s, Min(ms), attr)
                 e == RunEnd(s, p, AttrValueChars)
             IN  <<SubSeq(s, p, e)>> \o FindAttr(s, e + 1, attr)

\* where a match of <[^>]+> that starts at i ends (0: no match)
TagEnd(s, i) ==
    LET gts == {j \in (i + 2)..Len(s) : s[j] = ">"}
    IN  IF s[i] = "<" /\ i + 1 <= Len(s) /\ s[i + 1] # ">" /\ gts # {}
        THEN Min(gts) ELSE 0

\* re.sub(r"<[^>]+>", " ", s) from i
RECURSIVE RemoveTags(_, _)
RemoveTags(s, i) ==
    LET ms == {j \in i..Len(s) : TagEnd(s, j) > 0}
    IN  IF ms = {} THEN From(s, i)
        ELSE SubSeq(s, i, Min(ms) - 1) \o <<" ">>
             \o RemoveTags(s, TagEnd(s, Min(ms)) + 1)

\* re.sub(r"\s+", " ", s): every maximal run of whitespace becomes one space
CollapseSpace(s) ==
    LET kept(i) == s[i] \notin SpaceChars \/ i = 1 \/ s[i - 1] \notin SpaceChars
        keep == SelectSeq(Indices(s), kept)
    IN  Tup([k \in DOMAIN keep |->
                IF s[keep[k]] \in SpaceChars THEN " " ELSE s[keep[k]]])

\* str.strip()
Strip(s) ==
    LET ns == {k \in DOMAIN s : ~IsSpace(s[k])}
    IN  IF ns = {} THEN <<>>
        ELSE SubSeq(s, Min(ns), CHOOSE k \in ns : \A j \in ns : j <= k)

strip_html(html_content) ==
    LET h1 == RemoveBlocks(html_content, 1, <<"s","c","r","i","p","t">>)
        h2 == RemoveBlocks(h1, 1, <<"s","t","y","l","e">>)
    IN  [text   |-> Strip(CollapseSpace(RemoveTags(h2, 1))),
         links  |-> FindAttr(h2, 1, <<"h","r","e","f","=">>),
         images |-> FindAttr(h2, 1, <<"s","r","c","=">>)]

text_statistics(text) ==
    LET words == FindWords(text)
        word_count == Len(words)
        sentence_count == Len(NonBlank(ReSplit(text, {".", "!", "?"}, 1)))
        paragraphs == NonBlank(ReSplit(text, SpaceChars, 2))
    IN  [word_count      |-> word_count,
         sentence_count  |-> sentence_count,
         paragraph_count |-> IF paragraphs # <<>> THEN Len(paragraphs)
                             ELSE IF sentence_count \div 3 > 1
                                  THEN sentence_count \div 3 ELSE 1,
         avg_word_length |-> IF word_count # 0
                             THEN RoundDiv(SumLen(words), word_count, Thousand)
                             ELSE 0]

\* faulty variant: the clock reading enters the statistics
process_one_html_Stamped(basename, html, now) ==
    LET r == strip_html(html)
        st == text_statistics(r.text)
    IN  [source_file  |-> basename,
         text         |-> r.text,
         statistics   |-> [st EXCEPT !.word_count = @ + now],
         links        |-> r.links,
         images       |-> r.images,
         processed_at |-> now]

\* the record built from a file that could be read; now is the clock reading
process_one_html(basename, html, now) ==
    LET r == strip_html(html)
    IN  [source_file  |-> basename,
         text         |-> r.text,
         statistics   |-> text_statistics(r.text),
         links        |-> r.links,
         images       |-> r.images,
         processed_at |-> now]

\* os.path.splitext(name)[0]: the name up to its last dot, leading dots aside
splitext0(name) ==
    LET lead == RunEnd(name, 1, {"."})
        dots == {k \in (lead + 1)..Len(name) : name[k] = "."}
    IN  IF dots = {} THEN name
        ELSE SubSeq(name, 1, (CHOOSE k \in dots : \A j \in dots : j <= k) - 1)

\* glob's "*.ext" on one name: the suffix matches and the name is not hidden
GlobMatch(name, ext) ==
    /\ Len(name) >= Len(ext)
    /\ SubSeq(name, Len(name) - Len(ext) + 1, Len(name)) = ext
    /\ name[1] # "."

HtmlExt == <<".", "h", "t", "m", "l">>
JsonExt == <<".", "j", "s", "o", "n">>

(***************************************************************************)
(* Corpus Aggregator helpers: analyze.py                                   *)
(***************************************************************************)
tokenize_words(text) ==
    LET ws == FindWords(text)
    IN  Tup([i \in DOMAIN ws |-> Tup(LowerStr(ws[i]))])

split_sentences(text) == NonBlank(ReSplit(text, {".", "!", "?"}, 1))

\* " ".join(ws)
RECURSIVE JoinSpace(_)
JoinSpace(ws) ==
    IF ws = <<>> THEN <<>>
    ELSE IF Len(ws) = 1 THEN ws[1]
    ELSE ws[1] \o <<" ">> \o JoinSpace(Tail(ws))

ngrams(words, n) ==
    Tup([i \in 1..(IF Len(words) - n + 1 > 0 THEN Len(words) - n + 1 ELSE 0) |->
            JoinSpace(SubSeq(words, i, i + n - 1))])

\* faulty variant: the intersection is divided by the size of the first set
jaccard_similarity_OverFirst(doc1_words, doc2_words) ==
    LET set1 == Range(doc1_words)
        set2 == Range(doc2_words)
    IN  IF set1 # {} THEN [num |-> Cardinality(set1 \cap set2),
                           den |-> Cardinality(set1)]
        ELSE [num |-> 0, den |-> 1]

\* the quotient of jaccard_similarity as numerator and denominator;
\* 0.0 is 0/1
jaccard_similarity(doc1_words, doc2_words) ==
    LET set1 == Range(doc1_words)
        set2 == Range(doc2_words)
        union == set1 \cup set2
    IN  IF union # {} THEN [num |-> Cardinality(set1 \cap set2),
                            den |-> Cardinality(union)]
        ELSE [num |-> 0, den |-> 1]

\* the keys of Counter(items) in insertion order: the first occurrences
FirstSeen(items) ==
    LET isFirst(i) == \A j \in 1..(i - 1) : items[j] # items[i]
        firsts == SelectSeq(Indices(items), isFirst)
    IN  Tup([k \in DOMAIN firsts |-> items[firsts[k]]])

CountOf(x, items) == Cardinality({i \in DOMAIN items : items[i] = x})

\* sorted(entries, key=count, reverse=True): the sort is stable, so an
\* entry comes after the entries of greater count and after the earlier
\* entries of equal count
SortByCount(entries) ==
    LET rank == Tup([i \in DOMAIN entries |->
                   Cardinality({j \in DOMAIN entries :
                       \/ entries[j].count > entries[i].count
                       \/ entries[j].count = entries[i].count /\ j < i}) + 1])
    IN  Tup([r \in DOMAIN entries |->
                entries[CHOOSE i \in DOMAIN entries : rank[i] = r]])

\* faulty variant: the ranking is not cut to k entries
most_common_Uncut(items, k) ==
    LET keys == FirstSeen(items)
    IN  SortByCount(Tup([i \in DOMAIN keys |->
            [item |-> keys[i], count |-> CountOf(keys[i], items)]]))

\* Counter(items).most_common(k) as a list of [item, count]
most_common(items, k) ==
    LET keys == FirstSeen(items)
        entries == Tup([i \in DOMAIN keys |->
                      [item |-> keys[i], count |-> CountOf(keys[i], items)]])
        ranked == SortByCount(entries)
    IN  SubSeq(ranked, 1, IF Len(ranked) < k THEN Len(ranked) ELSE k)

(***************************************************************************)
(* Files.  A file that exists holds either bytes that json.load rejects    *)
(* (an empty or half-written file), cannot be opened at all, or a JSON     *)
(* value; a JSON value carries its type.                                   *)
(***************************************************************************)
Absent == [kind |-> "absent"]
Garbage == [kind |-> "garbage"]
Unreadable == [kind |-> "unreadable"]
JsonFile(v) == [kind |-> "json", value |-> v]

JNull == [type |-> "null"]
JNum(n) == [type |-> "number", num |-> n]
JStr(s) == [type |-> "string", str |-> s]
JArr(items) == [type |-> "array", items |-> items]
JObj(fields) == [type |-> "object", fields |-> fields]

\* datetime.now(timezone.utc).isoformat() at clock reading t
isoformat(t) == [type |-> "string", iso |-> t]

\* bool(v) of Python on a parsed JSON value
Truthy(v) ==
    CASE v.type = "null"   -> FALSE
      [] v.type = "number" -> v.num # 0
      [] v.type = "string" -> IF "str" \in DOMAIN v THEN v.str # <<>> ELSE TRUE
      [] v.type = "array"  -> v.items # <<>>
      [] v.type = "object" -> DOMAIN v.fields # {}

\* a directory as a function from file names to contents, after writing one
WriteFile(dir, name, content) ==
    [n \in DOMAIN dir \cup {name} |-> IF n = name THEN content ELSE dir[n]]

\* sorted(glob(os.path.join(dir, "*" + ext))) as base names: every path has
\* the same directory prefix, so the paths sort as the names do
sorted_glob(dir, ext) == sorted({n \in DOMAIN dir : GlobMatch(n, ext)})

EmptyDir == [n \in {} |-> Absent]

(***************************************************************************)
(* Bounds and inputs                                                       *)
(***************************************************************************)
\* how many raw documents the fetcher deposits at most
MaxRaw == 2

\* the clock readings a timestamp can take
MaxTime == 2
Times == 1..MaxTime

RawNames == { <<"a", ".", "h", "t", "m", "l">>,
              <<"a", ".", "i", ".", "h", "t", "m", "l">>,
              <<"n", ".", "t", "x", "t">> }

\* <b>Hi</b> x.
Html1 == <<"<","b",">","H","i","<","/","b",">"," ","x",".">>
\* <script>e</script><a href="u">A b</a>
Html2 == <<"<","s","c","r","i","p","t",">","e","<","/","s","c","r","i","p","t",">",
           "<","a"," ","h","r","e","f","=","\"","u","\"",">","A"," ","b","<","/","a",">">>

HtmlInputs == { <<>>, Html1, Html2 }

(***************************************************************************)
(* State                                                                   *)
(***************************************************************************)
VARIABLES
    raw,            \* /shared/raw: file name -> html
    fetch_done,     \* /shared/status/fetch_complete.json exists
    processed,      \* /shared/processed: file name -> content
    process_done,   \* /shared/status/process_complete.json
    final_report,   \* /shared/analysis/final_report.json
    proc,           \* the processor process: its position and locals
    ana,            \* the analyzer process: its position and locals
    jac,            \* a call of jaccard_similarity on its own
    strip_call,     \* a call of strip_html on its own
    arx             \* the arxiv_processor process: its position and locals

vars == <<raw, fetch_done, processed, process_done, final_report, proc, ana, jac,
          strip_call, arx>>

ProcStart == [pc |-> "wait", html_files |-> <<>>, idx |-> 1, data |-> JNull,
              processed_files |-> <<>>, successes |-> 0, failures |-> 0,
              attempted |-> <<>>]

AnaStart == [pc |-> "wait", processed_files |-> <<>>, i |-> 1, docs |-> <<>>,
             all_words |-> <<>>, all_bigrams |-> <<>>, all_trigrams |-> <<>>,
             total_word_chars |-> 0, total_sentences |-> 0, loaded |-> <<>>]

JacIdle == [pc |-> "idle"]

StripIdle == [pc |-> "idle"]

ArxIdle == [pc |-> "idle"]

Init ==
    /\ raw = EmptyDir
    /\ fetch_done = FALSE
    /\ processed = EmptyDir
    /\ process_done = Absent
    /\ final_report = Absent
    /\ proc = ProcStart
    /\ ana = AnaStart
    /\ jac = JacIdle
    /\ strip_call = StripIdle
    /\ arx = ArxIdle

(***************************************************************************)
(* The upstream fetcher (an external collaborator): it deposits raw        *)
(* documents and then its marker, and touches neither afterwards.          *)
(***************************************************************************)
FetchWrite ==
    /\ ~fetch_done
    /\ Cardinality(DOMAIN raw) < MaxRaw
    /\ \E name \in RawNames \ DOMAIN raw, html \in HtmlInputs :
          raw' = WriteFile(raw, name, html)
    /\ UNCHANGED <<fetch_done, processed, process_done, final_report, proc, ana, jac, strip_call, arx>>

FetchComplete ==
    /\ ~fetch_done
    /\ fetch_done' = TRUE
    /\ UNCHANGED <<raw, processed, process_done, final_report, proc, ana, jac, strip_call, arx>>

(***************************************************************************)
(* Extraction Driver: main of process.py                                   *)
(* proc.attempted is history: the documents whose iteration has ended and  *)
(* whether it ended in the try branch.                                     *)
(***************************************************************************)
\* faulty variant: the wait loop is left whether or not the marker exists
ProcWaitExit_NoWait(exists) == TRUE

\* while not os.path.exists(FETCH_DONE_FILE): print; sleep  -- one test
ProcWaitExit(exists) == exists

ProcWait ==
    /\ proc.pc = "wait"
    /\ proc' = [proc EXCEPT !.pc = IF ProcWaitExit(fetch_done) THEN "glob" ELSE "wait"]
    /\ UNCHANGED <<raw, fetch_done, processed, process_done, final_report, ana, jac, strip_call, arx>>

\* os.makedirs(..., exist_ok=True) twice; html_files = sorted(glob(...))
ProcGlob ==
    /\ proc.pc = "glob"
    /\ proc' = [proc EXCEPT !.pc = "loop",
                            !.html_files = sorted_glob(raw, HtmlExt),
                            !.idx = 1,
                            !.processed_files = <<>>,
                            !.successes = 0,
                            !.failures = 0]
    /\ UNCHANGED <<raw, fetch_done, processed, process_done, final_report, ana, jac, strip_call, arx>>

\* faulty variant: no except branch: the exception ends the process
ProcFail_Abort(p) ==
    [p EXCEPT !.pc = "aborted", !.failures = p.failures + 1, !.data = JNull]

\* the except branch and the end of the iteration: failures += 1; sleep
ProcFail(p) ==
    [p EXCEPT !.pc = "loop",
              !.failures = p.failures + 1,
              !.idx = p.idx + 1,
              !.data = JNull,
              !.attempted = Append(p.attempted,
                                   [name |-> p.html_files[p.idx], ok |-> FALSE])]

\* data = process_one_html(html_path): the read raises or the record is built
ProcExtract ==
    /\ proc.pc = "loop"
    /\ proc.idx <= Len(proc.html_files)
    /\ LET name == proc.html_files[proc.idx]
       IN  \E readable \in BOOLEAN, now \in Times :
              proc' = IF readable /\ name \in DOMAIN raw
                      THEN [proc EXCEPT !.pc = "open_out",
                                        !.data = process_one_html(name, raw[name], now)]
                      ELSE ProcFail(proc)
    /\ UNCHANGED <<raw, fetch_done, processed, process_done, final_report, ana, jac, strip_call, arx>>

out_name_of(html_name) == splitext0(html_name) \o JsonExt

\* with open(out_path, "w") as f: the file is created or truncated, or the
\* open raises
ProcOpenOut ==
    /\ proc.pc = "open_out"
    /\ \E writable \in BOOLEAN :
          IF writable
          THEN /\ processed' = WriteFile(processed,
                                   out_name_of(proc.html_files[proc.idx]), Garbage)
               /\ proc' = [proc EXCEPT !.pc = "dump"]
          ELSE /\ processed' = processed
               /\ proc' = ProcFail(proc)
    /\ UNCHANGED <<raw, fetch_done, process_done, final_report, ana, jac, strip_call, arx>>

\* the record as json.dump writes it
RecordJson(data) ==
    JObj([source_file  |-> JStr(data.source_file),
          text         |-> JStr(data.text),
          statistics   |-> JObj(data.statistics),
          links        |-> JArr(data.links),
          images       |-> JArr(data.images),
          processed_at |-> isoformat(data.processed_at)])

\* faulty variant: the output name is not recorded
ProcSucceed_NoAppend(p, out_name) ==
    [p EXCEPT !.pc = "loop",
              !.successes = p.successes + 1,
              !.idx = p.idx + 1,
              !.data = JNull,
              !.attempted = Append(p.attempted,
                                   [name |-> p.html_files[p.idx], ok |-> TRUE])]

\* the rest of a successful iteration
ProcSucceed(p, out_name) ==
    [p EXCEPT !.pc = "loop",
              !.processed_files = Append(p.processed_files, out_name),
              !.successes = p.successes + 1,
              !.idx = p.idx + 1,
              !.data = JNull,
              !.attempted = Append(p.attempted,
                                   [name |-> p.html_files[p.idx], ok |-> TRUE])]

\* json.dump(data, f) and the close: the record is complete, or the write
\* raises and leaves a partial file
ProcDump ==
    /\ proc.pc = "dump"
    /\ LET out_name == out_name_of(proc.html_files[proc.idx])
       IN  \E written \in BOOLEAN :
              IF written
              THEN /\ processed' = WriteFile(processed, out_name,
                                       JsonFile(RecordJson(proc.data)))
                   /\ proc' = ProcSucceed(proc, out_name)
              ELSE /\ processed' = processed
                   /\ proc' = ProcFail(proc)
    /\ UNCHANGED <<raw, fetch_done, process_done, final_report, ana, jac, strip_call, arx>>

\* faulty variant: the marker is written without waiting for the loop to end
ProcLoopDone_Early(p) == TRUE

\* the loop has ended: status is built and the marker file is opened
ProcLoopDone(p) == p.idx > Len(p.html_files)

StatusJson(p, now) ==
    JObj([timestamp         |-> isoformat(now),
          inputs_detected   |-> JNum(Len(p.html_files)),
          processed_success |-> JNum(p.successes),
          processed_failed  |-> JNum(p.failures),
          outputs           |-> JArr(p.processed_files)])

ProcOpenMarker ==
    /\ proc.pc = "loop"
    /\ ProcLoopDone(proc)
    /\ \E now \in Times :
          proc' = [proc EXCEPT !.pc = "dump_marker", !.data = StatusJson(proc, now)]
    /\ process_done' = Garbage
    /\ UNCHANGED <<raw, fetch_done, processed, final_report, ana, jac, strip_call, arx>>

ProcDumpMarker ==
    /\ proc.pc = "dump_marker"
    /\ process_done' = JsonFile(proc.data)
    /\ proc' = [proc EXCEPT !.pc = "done", !.data = JNull]
    /\ UNCHANGED <<raw, fetch_done, processed, final_report, ana, jac, strip_call, arx>>

(***************************************************************************)
(* Corpus Aggregator: main of analyze.py                                   *)
(* ana.loaded is history: the files json.load has returned a value for.    *)
(***************************************************************************)
\* faulty variant: the wait loop is never left
AnaWaitExit_Never(marker) == FALSE

\* faulty variant: the wait loop is left whether or not the marker exists
AnaWaitExit_NoWait(marker) == TRUE

\* while not os.path.exists(PROCESS_DONE_FILE): print; sleep  -- one test
AnaWaitExit(marker) == marker # Absent

AnaWait ==
    /\ ana.pc = "wait"
    /\ ana' = [ana EXCEPT !.pc = IF AnaWaitExit(process_done) THEN "glob" ELSE "wait"]
    /\ UNCHANGED <<raw, fetch_done, processed, process_done, final_report, proc, jac, strip_call, arx>>

\* os.makedirs(ANALYSIS_DIR); processed_files = sorted(glob(...)); the
\* accumulators are set up
AnaGlob ==
    /\ ana.pc = "glob"
    /\ ana' = [AnaStart EXCEPT !.pc = "load",
                               !.processed_files = sorted_glob(processed, JsonExt)]
    /\ UNCHANGED <<raw, fetch_done, processed, process_done, final_report, proc, jac, strip_call, arx>>

\* open(path) or json.load(f) raises: the except branch is taken
LoadRaises(content) == content.kind # "json"

\* data.get("text", "") or ""
TextOf(data) ==
    LET got == IF "text" \in DOMAIN data.fields THEN data.fields.text ELSE JStr(<<>>)
    IN  IF Truthy(got) THEN got ELSE JStr(<<>>)

\* re.findall accepts a str only
IsPyStr(v) == v.type = "string" /\ "str" \in DOMAIN v

\* the body of the loop after a successful load
Accumulate(a, name, text) ==
    LET words == tokenize_words(text)
        sentences == split_sentences(text)
    IN  [a EXCEPT !.docs = Append(a.docs, [name |-> name, words |-> words]),
                  !.all_words = a.all_words \o words,
                  !.total_word_chars = a.total_word_chars + SumLen(words),
                  !.total_sentences = a.total_sentences + Len(sentences),
                  !.all_bigrams = a.all_bigrams \o ngrams(words, 2),
                  !.all_trigrams = a.all_trigrams \o ngrams(words, 3)]

\* one iteration of "for path in processed_files"
AnaLoad ==
    /\ ana.pc = "load"
    /\ ana.i <= Len(ana.processed_files)
    /\ LET name == ana.processed_files[ana.i]
           content == IF name \in DOMAIN processed THEN processed[name] ELSE Absent
           next == [ana EXCEPT !.i = ana.i + 1]
       IN  ana' =
             IF LoadRaises(content) THEN next
             ELSE LET data == content.value
                      seen == [next EXCEPT !.loaded = Append(ana.loaded, name)]
                  IN  IF data.type # "object"
                      THEN \* data.get raises AttributeError, nothing catches it
                           [seen EXCEPT !.pc = "crashed"]
                      ELSE IF ~IsPyStr(TextOf(data))
                      THEN \* re.findall raises TypeError, nothing catches it
                           [seen EXCEPT !.pc = "crashed"]
                      ELSE Accumulate(seen, name, TextOf(data).str)
    /\ UNCHANGED <<raw, fetch_done, processed, process_done, final_report, proc, jac, strip_call, arx>>

TopWords == 100
TopNgrams == 50

\* faulty variant: every enumerated file is counted
DocumentsProcessed_AllFiles(a) == Len(a.processed_files)

\* "documents_processed": len(docs)
DocumentsProcessed(a) == Len(a.docs)

\* the report of the "if total_words == 0" branch
EmptyReport(a, now) ==
    JObj([processing_timestamp |-> isoformat(now),
          documents_processed  |-> DocumentsProcessed(a),
          total_words          |-> 0,
          unique_words         |-> 0,
          top_100_words        |-> <<>>,
          document_similarity  |-> <<>>,
          top_bigrams          |-> <<>>,
          readability          |-> [avg_sentence_length |-> 0,
                                    avg_word_length     |-> 0,
                                    complexity_score    |-> 0]])

\* faulty variant: combinations_with_replacement: a document is paired with itself
Pairs_WithSelf(n) ==
    LET idx(k) == <<((k - 1) \div n) + 1, ((k - 1) % n) + 1>>
        isPair(k) == idx(k)[1] <= idx(k)[2]
        ks == SelectSeq([k \in 1..(n * n) |-> k], isPair)
    IN  Tup([k \in DOMAIN ks |-> idx(ks[k])])

\* itertools.combinations(range(1, n + 1), 2) in its order
Pairs(n) ==
    LET idx(k) == <<((k - 1) \div n) + 1, ((k - 1) % n) + 1>>
        isPair(k) == idx(k)[1] < idx(k)[2]
        ks == SelectSeq([k \in 1..(n * n) |-> k], isPair)
    IN  Tup([k \in DOMAIN ks |-> idx(ks[k])])

\* step 3.2: one entry for each combination of two documents
Similarities(docs) ==
    LET pairs == Pairs(Len(docs))
    IN  Tup([k \in DOMAIN pairs |->
           LET d1 == docs[pairs[k][1]]
               d2 == docs[pairs[k][2]]
               sim == jaccard_similarity(d1.words, d2.words)
           IN  [doc1 |-> d1.name, doc2 |-> d2.name,
                similarity |-> RoundDiv(sim.num, sim.den, Million)]])

\* the report of steps 3 and 4
FullReport(a, now) ==
    LET total_words == Len(a.all_words)
        unique_words == Cardinality(Range(a.all_words))
        wc == most_common(a.all_words, TopWords)
        bc == most_common(a.all_bigrams, TopNgrams)
        tc == most_common(a.all_trigrams, TopNgrams)
    IN  JObj([processing_timestamp |-> isoformat(now),
              documents_processed  |-> DocumentsProcessed(a),
              total_words          |-> total_words,
              unique_words         |-> unique_words,
              top_100_words        |-> Tup([k \in DOMAIN wc |->
                  [word |-> wc[k].item, count |-> wc[k].count,
                   frequency |-> RoundDiv(wc[k].count, total_words, Million)]]),
              document_similarity  |-> Similarities(a.docs),
              top_bigrams          |-> Tup([k \in DOMAIN bc |->
                  [bigram |-> bc[k].item, count |-> bc[k].count]]),
              top_trigrams         |-> Tup([k \in DOMAIN tc |->
                  [trigram |-> tc[k].item, count |-> tc[k].count]]),
              readability          |->
                  [avg_sentence_length |->
                       IF a.total_sentences # 0
                       THEN RoundDiv(total_words, a.total_sentences, Million)
                       ELSE total_words * Million,
                   avg_word_length |->
                       RoundDiv(a.total_word_chars, total_words, Million),
                   complexity_score |->
                       IF a.total_sentences # 0
                       THEN RoundDiv(a.total_word_chars, a.total_sentences, Million)
                       ELSE a.total_word_chars * Million]])

PROCESS_DONE_FILE == "/shared/status/process_complete.json"

\* faulty variant: the report is written to the path of the marker
FINAL_REPORT_FILE_Status == PROCESS_DONE_FILE

FINAL_REPORT_FILE == "/shared/analysis/final_report.json"

\* the file at path after open(target, "w") and json.dump of content
Written(path, old, target, content) == IF target = path THEN content ELSE old

\* the loop has ended: the report is computed and written
AnaReport ==
    /\ ana.pc = "load"
    /\ ana.i > Len(ana.processed_files)
    /\ \E now \in Times :
          LET report == JsonFile(IF Len(ana.all_words) = 0
                                 THEN EmptyReport(ana, now)
                                 ELSE FullReport(ana, now))
          IN  /\ final_report' = Written("/shared/analysis/final_report.json",
                                         final_report, FINAL_REPORT_FILE, report)
              /\ process_done' = Written(PROCESS_DONE_FILE,
                                         process_done, FINAL_REPORT_FILE, report)
    /\ ana' = [ana EXCEPT !.pc = "done"]
    /\ UNCHANGED <<raw, fetch_done, processed, proc, jac, strip_call, arx>>

(***************************************************************************)
(* The pipeline: fetcher, processor and analyzer as concurrent processes   *)
(***************************************************************************)
Next ==
    \/ FetchWrite
    \/ FetchComplete
    \/ ProcWait
    \/ ProcGlob
    \/ ProcExtract
    \/ ProcOpenOut
    \/ ProcDump
    \/ ProcOpenMarker
    \/ ProcDumpMarker
    \/ AnaWait
    \/ AnaGlob
    \/ AnaLoad
    \/ AnaReport

Spec == Init /\ [][Next]_vars

(***************************************************************************)
(* The analyzer on its own, started on a processed directory of any        *)
(* content with the marker in place                                        *)
(***************************************************************************)
\* how many distinct words the long text has
LongWords == 101

RecNames == { <<"a", ".", "j", "s", "o", "n">>,
              <<"a", ".", "i", ".", "j", "s", "o", "n">>,
              <<"b", ".", "j", "s", "o", "n">> }

\* Hello world. Hello again!
TextHello1 == <<"H","e","l","l","o"," ","w","o","r","l","d","."," ",
                "H","e","l","l","o"," ","a","g","a","i","n","!">>
\* Hello world again.
TextHello2 == <<"H","e","l","l","o"," ","w","o","r","l","d"," ",
                "a","g","a","i","n",".">>
\* ...
TextDots == <<".", ".", ".">>

\* LongWords two-letter words, all distinct, in descending alphabetical
\* order, separated by single spaces
LongWord(i) == <<LowerSeq[(i \div 26) + 1], LowerSeq[(i % 26) + 1]>>
TextLong ==
    Tup([i \in 1..(3 * LongWords - 1) |->
            IF i % 3 = 0 THEN " "
            ELSE LongWord(LongWords - 1 - ((i - 1) \div 3))[((i - 1) % 3) + 1]])

Texts == { <<>>, TextDots, TextHello1, TextHello2, TextLong }

NoFields == [k \in {} |-> JNull]

RecContents ==
    { Garbage, Unreadable,
      JsonFile(JArr(<<>>)),
      JsonFile(JObj(NoFields)),
      JsonFile(JObj([text |-> JNull])),
      JsonFile(JObj([text |-> JNum(5)])) }
    \cup { JsonFile(JObj([text |-> JStr(t)])) : t \in Texts }

InitAgg ==
    /\ raw = EmptyDir
    /\ fetch_done = TRUE
    /\ \E S \in SUBSET RecNames : processed \in [S -> RecContents]
    /\ process_done = Garbage
    /\ final_report = Absent
    /\ proc = [ProcStart EXCEPT !.pc = "done"]
    /\ ana = AnaStart
    /\ jac = JacIdle
    /\ strip_call = StripIdle
    /\ arx = ArxIdle

NextAgg ==
    \/ AnaWait
    \/ AnaGlob
    \/ AnaLoad
    \/ AnaReport

SpecAgg == InitAgg /\ [][NextAgg]_vars

(***************************************************************************)
(* jaccard_similarity on its own, on any two token lists                   *)
(***************************************************************************)
MaxTokens == 2

Vocab == { <<"a">>, <<"b">>, <<"c">> }

TokenLists == UNION { [1..n -> Vocab] : n \in 0..MaxTokens }

InitJaccard ==
    /\ raw = EmptyDir
    /\ fetch_done = FALSE
    /\ processed = EmptyDir
    /\ process_done = Absent
    /\ final_report = Absent
    /\ proc = ProcStart
    /\ ana = AnaStart
    /\ \E a \in TokenLists, b \in TokenLists : jac = [pc |-> "call", a |-> a, b |-> b]
    /\ strip_call = StripIdle
    /\ arx = ArxIdle

JaccardCall ==
    /\ jac.pc = "call"
    /\ jac' = [pc |-> "returned", a |-> jac.a, b |-> jac.b,
               ab |-> jaccard_similarity(jac.a, jac.b),
               ba |-> jaccard_similarity(jac.b, jac.a),
               aa |-> jaccard_similarity(jac.a, jac.a)]
    /\ UNCHANGED <<raw, fetch_done, processed, process_done, final_report, proc, ana, strip_call, arx>>

NextJaccard == JaccardCall

SpecJaccard == InitJaccard /\ [][NextJaccard]_vars

(***************************************************************************)
(* Properties of the pipeline (Spec)                                       *)
(***************************************************************************)
\* the raw documents the driver's glob matches, in its order
HtmlNames == sorted_glob(raw, HtmlExt)

AttemptedNames == [k \in DOMAIN proc.attempted |-> proc.attempted[k].name]

\* the record names of the documents whose iteration succeeded, in the
\* order of the attempts
SuccessOutputs ==
    LET ok(a) == a.ok
        oks == SelectSeq(proc.attempted, ok)
    IN  [k \in DOMAIN oks |-> out_name_of(oks[k].name)]

ProcPastLoop == proc.pc \in {"dump_marker", "done"}

\* C1: a stage enumerates and reads its upstream inputs only once its
\* upstream marker exists: the processor is past its wait loop, and changes
\* its file list or its position in it, only with fetch_complete.json in
\* place, and the analyzer likewise only with process_complete.json in place.
C1_InputsAfterMarker ==
    /\ [](proc.pc # "wait" => fetch_done)
    /\ [](ana.pc # "wait" => process_done # Absent)
    /\ [][(proc'.html_files # proc.html_files \/ proc'.idx # proc.idx
             \/ proc'.data # proc.data) => fetch_done]_vars
    /\ [][(ana'.processed_files # ana.processed_files \/ ana'.i # ana.i)
             => process_done # Absent]_vars

C1_Witness ==
    /\ proc.pc = "dump"
    /\ Len(proc.html_files) = 2
    /\ fetch_done

\* C2: process_complete.json exists only when every raw document has been
\* attempted and every record of a successful document is completely
\* written; the analyzer is past its wait loop only when the processor is
\* past its document loop, and from the marker's creation on the record set
\* does not change.
C2_MarkerAfterRecords ==
    /\ [](process_done # Absent =>
            /\ ProcPastLoop
            /\ AttemptedNames = HtmlNames
            /\ \A k \in DOMAIN SuccessOutputs :
                  /\ SuccessOutputs[k] \in DOMAIN processed
                  /\ processed[SuccessOutputs[k]].kind = "json")
    /\ [](ana.pc # "wait" => ProcPastLoop)
    /\ [][process_done # Absent => processed' = processed]_vars

C2_Witness ==
    /\ ana.pc = "load"
    /\ proc.pc = "dump_marker"
    /\ Len(SuccessOutputs) = 2

\* C3: a failure of one document does not end the batch: a step that counts
\* a failure moves on to the next document, the processor is never in a
\* position outside its loop and marker steps, and when it has terminated
\* every enumerated document has been attempted, in order, and the marker is
\* written.
C3_FailureDoesNotAbort ==
    /\ [][proc'.failures = proc.failures + 1 =>
             /\ proc'.pc = "loop"
             /\ proc'.idx = proc.idx + 1
             /\ Len(proc'.attempted) = Len(proc.attempted) + 1]_vars
    /\ [](proc.pc \in {"wait", "glob", "loop", "open_out", "dump",
                       "dump_marker", "done"})
    /\ [](proc.pc \in {"loop", "open_out", "dump"} =>
             /\ Len(proc.attempted) = proc.idx - 1
             /\ AttemptedNames = SubSeq(proc.html_files, 1, proc.idx - 1))
    /\ [](proc.pc = "done" =>
             /\ AttemptedNames = proc.html_files
             /\ process_done.kind = "json")

\* the first document failed, the second was processed, the marker is there
C3_Witness ==
    /\ proc.pc = "done"
    /\ Len(proc.attempted) = 2
    /\ ~proc.attempted[1].ok
    /\ proc.attempted[2].ok
    /\ process_done.kind = "json"

\* C4: the completed marker has inputs_detected = processed_success +
\* processed_failed = the number of raw documents, len(outputs) =
\* processed_success, and outputs is the record names of the successfully
\* processed documents in the lexicographic order of their source names.
C4_MarkerTotals ==
    process_done.kind = "json" =>
        LET m == process_done.value.fields
        IN  /\ m.inputs_detected.num = m.processed_success.num + m.processed_failed.num
            /\ m.inputs_detected.num = Len(HtmlNames)
            /\ Len(m.outputs.items) = m.processed_success.num
            /\ m.outputs.items = SuccessOutputs
            /\ \A i, j \in DOMAIN proc.attempted :
                  i < j => StrLess(proc.attempted[i].name, proc.attempted[j].name)

\* two successes whose record names sort the other way round: a.i.json
\* is smaller than a.json, a.html is smaller than a.i.html
C4_Witness ==
    /\ process_done.kind = "json"
    /\ process_done.value.fields.processed_success.num = 2
    /\ StrLess(process_done.value.fields.outputs.items[2],
               process_done.value.fields.outputs.items[1])

(***************************************************************************)
(* Properties of the analyzer (SpecAgg)                                    *)
(***************************************************************************)
\* the record files in the analyzer's order, and those json.load accepts
JsonNames == sorted_glob(processed, JsonExt)

ValidNames ==
    LET valid(n) == processed[n].kind = "json"
    IN  SelectSeq(JsonNames, valid)

RECURSIVE Flatten(_)
Flatten(ss) == IF ss = <<>> THEN <<>> ELSE ss[1] \o Flatten(Tail(ss))

\* the tokens of one loaded record
WordsOfFile(n) == tokenize_words(TextOf(processed[n].value).str)

\* the tokens, bigrams and trigrams of the loaded records, in file order
CorpusWords ==
    Flatten([k \in DOMAIN ValidNames |-> WordsOfFile(ValidNames[k])])
CorpusBigrams ==
    Flatten([k \in DOMAIN ValidNames |-> ngrams(WordsOfFile(ValidNames[k]), 2)])
CorpusTrigrams ==
    Flatten([k \in DOMAIN ValidNames |-> ngrams(WordsOfFile(ValidNames[k]), 3)])

Report == final_report.value.fields

\* C5: the report's documents_processed is the number of record files
\* json.load returned a value for; a file that cannot be read or parsed is
\* passed over once and the counts of the report are those of the other
\* records alone.
C5_DocumentsProcessed ==
    ana.pc = "done" =>
        /\ Report.documents_processed = Len(ValidNames)
        /\ ana.loaded = ValidNames
        /\ [k \in DOMAIN ana.docs |-> ana.docs[k].name] = ValidNames
        /\ ana.i = Len(JsonNames) + 1
        /\ Report.total_words = Len(CorpusWords)
        /\ Report.unique_words = Cardinality(Range(CorpusWords))

\* three record files, one of them not JSON, two with words
C5_Witness ==
    /\ ana.pc = "done"
    /\ Len(JsonNames) = 3
    /\ Cardinality({n \in DOMAIN processed : processed[n] = Garbage}) = 1
    /\ Report.documents_processed = 2
    /\ \A k \in DOMAIN ana.docs : ana.docs[k].words # <<>>

\* C6: whatever the record files hold, the analyzer is not ended by an
\* error of one record.
C6_NoAbort == ana.pc # "crashed"

\* C7: with no token in the corpus the report has documents_processed,
\* total_words and unique_words at zero and top_100_words,
\* document_similarity, top_bigrams and top_trigrams present and empty.
C7_EmptyCorpusReport ==
    (ana.pc = "done" /\ Len(ana.all_words) = 0) =>
        /\ Report.documents_processed = 0
        /\ Report.total_words = 0
        /\ Report.unique_words = 0
        /\ \A key \in {"top_100_words", "document_similarity",
                       "top_bigrams", "top_trigrams"} :
              key \in DOMAIN Report /\ Report[key] = <<>>

\* list is the first min(k, number of distinct items) of the distinct items
\* ordered by count descending and, at equal count, by first occurrence
Ranked(list, key, items, k) ==
    LET distinct == Range(items)
        FirstPos(x) == Min({i \in DOMAIN items : items[i] = x})
        cnt == Tup([i \in DOMAIN list |-> CountOf(list[i][key], items)])
        pos == Tup([i \in DOMAIN list |-> FirstPos(list[i][key])])
        rest == distinct \ {list[i][key] : i \in DOMAIN list}
    IN  /\ Len(list) = IF Cardinality(distinct) < k THEN Cardinality(distinct) ELSE k
        /\ \A i \in DOMAIN list :
              list[i][key] \in distinct /\ list[i].count = cnt[i]
        /\ \A i, j \in DOMAIN list :
              i < j => \/ cnt[i] > cnt[j]
                       \/ cnt[i] = cnt[j] /\ pos[i] < pos[j]
        /\ \A x \in rest :
              LET cx == CountOf(x, items)
                  px == FirstPos(x)
              IN  \A i \in DOMAIN list :
                     cnt[i] > cx \/ (cnt[i] = cx /\ pos[i] < px)

C10_Similarity ==
    (ana.pc = "done" /\ Len(CorpusWords) > 0) =>
        LET sims == Report.document_similarity
            n == Len(ValidNames)
            loaded == Range(ValidNames)
        IN  /\ 2 * Len(sims) = n * (n - 1)
            /\ \A x, y \in loaded : x # y =>
                  Cardinality({k \in DOMAIN sims :
                      {sims[k].doc1, sims[k].doc2} = {x, y}}) = 1
            /\ \A k \in DOMAIN sims :
                  LET A == Range(WordsOfFile(sims[k].doc1))
                      B == Range(WordsOfFile(sims[k].doc2))
                  IN  /\ sims[k].doc1 \in loaded /\ sims[k].doc2 \in loaded
                      /\ StrLess(sims[k].doc1, sims[k].doc2)
                      /\ sims[k].similarity =
                            IF A \cup B = {} THEN 0
                            ELSE RoundDiv(Cardinality(A \cap B),
                                          Cardinality(A \cup B), 1000000)

\* three loaded documents, two of them with the same distinct tokens
C10_Witness ==
    /\ ana.pc = "done"
    /\ Len(ana.docs) = 3
    /\ Len(Report.document_similarity) = 3
    /\ \E k \in DOMAIN Report.document_similarity :
          Report.document_similarity[k].similarity = 1000000
    /\ \E k \in DOMAIN Report.document_similarity :
          Report.document_similarity[k].similarity = 0

(***************************************************************************)
(* Properties of jaccard_similarity (SpecJaccard)                          *)
(***************************************************************************)
JacBounded(q) == q.den > 0 /\ 0 <= q.num /\ q.num <= q.den

\* C9 as stated: symmetric, within [0, 1], and 1.0 for every document with
\* itself, one without tokens included.
C9_JaccardSelfAlwaysOne ==
    jac.pc = "returned" =>
        /\ jac.ab = jac.ba
        /\ JacBounded(jac.ab)
        /\ jac.aa.num = jac.aa.den

\* C9 amended: symmetric, within [0, 1], 1.0 for a document that has a
\* token with itself, and 0.0 for a document without tokens with itself.
C9_Jaccard ==
    jac.pc = "returned" =>
        /\ jac.ab = jac.ba
        /\ JacBounded(jac.ab)
        /\ jac.a # <<>> => jac.aa.num = jac.aa.den
        /\ jac.a = <<>> => jac.aa.num = 0

\* two documents that share one of three distinct tokens
C9_Witness ==
    /\ jac.pc = "returned"
    /\ jac.a # jac.b
    /\ jac.ab.num = 1
    /\ jac.ab.den = 3
    /\ jac.aa.num = 2

(***************************************************************************)
(* strip_html on its own, on documents put together from a few pieces      *)
(***************************************************************************)
\* how many pieces a document has at most
MaxFrags == 3

\* <script> </script> <Style> </STYLE> e t href= <b>
Frags == { <<"<","s","c","r","i","p","t",">">>,
           <<"<","/","s","c","r","i","p","t",">">>,
           <<"<","S","t","y","l","e",">">>,
           <<"<","/","S","T","Y","L","E",">">>,
           <<"e">>,
           <<"t">>,
           <<"h","r","e","f","=">>,
           <<"<","b",">">> }

HtmlDocs == { Flatten(fs) : fs \in UNION { [1..n -> Frags] : n \in 0..MaxFrags } }

InitStrip ==
    /\ raw = EmptyDir
    /\ fetch_done = FALSE
    /\ processed = EmptyDir
    /\ process_done = Absent
    /\ final_report = Absent
    /\ proc = ProcStart
    /\ ana = AnaStart
    /\ jac = JacIdle
    /\ \E h \in HtmlDocs : strip_call = [pc |-> "call", html |-> h]
    /\ arx = ArxIdle

StripCall ==
    /\ strip_call.pc = "call"
    /\ strip_call' = [pc |-> "returned", html |-> strip_call.html,
                      result |-> strip_html(strip_call.html)]
    /\ UNCHANGED <<raw, fetch_done, processed, process_done, final_report, proc, ana,
                   jac, arx>>

NextStrip == StripCall

SpecStrip == InitStrip /\ [][NextStrip]_vars

\* where the content of the script or style element that opens at or after
\* i lies, as a browser reads the document: from the end of the first
\* complete opening tag to the closing tag of the same name, or to the end
\* of the document when that element is not closed
RECURSIVE RawTextContent(_, _)
RawTextContent(s, i) ==
    LET tagAt(j) == IF StartsWithCI(s, j, <<"<","s","c","r","i","p","t">>)
                    THEN <<"s","c","r","i","p","t">>
                    ELSE <<"s","t","y","l","e">>
        opens(j) == /\ \/ StartsWithCI(s, j, <<"<","s","c","r","i","p","t">>)
                       \/ StartsWithCI(s, j, <<"<","s","t","y","l","e">>)
                    /\ \E g \in (j + 1)..Len(s) : s[g] = ">"
        os == {j \in i..Len(s) : opens(j)}
    IN  IF os = {} THEN {}
        ELSE LET j == Min(os)
                 g == Min({g \in (j + 1)..Len(s) : s[g] = ">"})
                 close == <<"<", "/">> \o tagAt(j) \o <<">">>
                 ks == {k \in (g + 1)..Len(s) : StartsWithCI(s, k, close)}
             IN  IF ks = {} THEN (g + 1)..Len(s)
                 ELSE ((g + 1)..(Min(ks) - 1))
                      \cup RawTextContent(s, Min(ks) + Len(close))

\* the letter e stands only inside script and style elements
MarkedDoc(h) == \A i \in DOMAIN h : h[i] = "e" => i \in RawTextContent(h, 1)

\* C11: when every e of the document is content of a script or style
\* element, no e is in the text, the links or the images strip_html
\* returns, and the text has neither < nor >.
C11_ScriptContentAbsent ==
    (strip_call.pc = "returned" /\ MarkedDoc(strip_call.html)) =>
        LET r == strip_call.result
        IN  /\ "e" \notin Range(r.text)
            /\ \A k \in DOMAIN r.links : "e" \notin Range(r.links[k])
            /\ \A k \in DOMAIN r.images : "e" \notin Range(r.images[k])
            /\ "<" \notin Range(r.text)
            /\ ">" \notin Range(r.text)

(***************************************************************************)
(* The pipeline under fair scheduling: the processor and the analyzer are  *)
(* processes that keep running (their wait loops sleep and test again, no  *)
(* step blocks), so a step that stays possible is taken.  Nothing is       *)
(* assumed of the fetcher.                                                 *)
(***************************************************************************)
ProcStep ==
    \/ ProcWait
    \/ ProcGlob
    \/ ProcExtract
    \/ ProcOpenOut
    \/ ProcDump
    \/ ProcOpenMarker
    \/ ProcDumpMarker

AnaStep ==
    \/ AnaWait
    \/ AnaGlob
    \/ AnaLoad
    \/ AnaReport

\* the analyzer has a step to take: ENABLED <<AnaStep>>_vars
AnaEnabled ==
    \/ ana.pc = "wait" /\ AnaWaitExit(process_done)
    \/ ana.pc = "glob"
    \/ ana.pc = "load"

\* weak fairness of the analyzer's steps, WF_vars(AnaStep), written out
\* with AnaEnabled for ENABLED <<AnaStep>>_vars
AnaFair == []<>(~AnaEnabled) \/ []<><<AnaStep>>_vars

SpecFair == Init /\ [][Next]_vars /\ WF_vars(ProcStep) /\ AnaFair

\* C12: while its upstream marker does not exist a stage stays at the start
\* of its wait loop, has read nothing and has written nothing; once the
\* marker exists the stage eventually writes its own output (the marker,
\* the report) and terminates.
C12_MarkerWait ==
    /\ [](~fetch_done =>
            proc = ProcStart /\ processed = EmptyDir /\ process_done = Absent)
    /\ [](process_done = Absent => ana = AnaStart /\ final_report = Absent)
    /\ (fetch_done ~> (proc.pc = "done" /\ process_done.kind = "json"))
    /\ (process_done # Absent ~> (ana.pc = "done" /\ final_report.kind = "json"))

C12_Witness ==
    /\ fetch_done
    /\ proc.pc = "done"
    /\ Len(proc.attempted) = MaxRaw
    /\ process_done.kind = "json"
    /\ ana.pc = "done"
    /\ final_report.kind = "json"

(***************************************************************************)
(* The pipeline with a processor that can be killed and started again.     *)
(* A kill leaves every file as it is.  A new run starts main from its top; *)
(* proc.run counts the runs.                                               *)
(***************************************************************************)
\* how many times the processor is started at most
MaxRuns == 2

RunOf(p) == IF "run" \in DOMAIN p THEN p.run ELSE 1

\* the processor is killed mid-batch: at any point before it opens the marker
ProcCrash ==
    /\ proc.pc \in {"wait", "glob", "loop", "open_out", "dump"}
    /\ proc' = [proc EXCEPT !.pc = "crashed"]
    /\ UNCHANGED <<raw, fetch_done, processed, process_done, final_report, ana, jac,
                   strip_call, arx>>

\* the killed processor is started again
ProcRestart ==
    /\ proc.pc = "crashed"
    /\ RunOf(proc) < MaxRuns
    /\ proc' = ProcStart @@ [run |-> RunOf(proc) + 1]
    /\ UNCHANGED <<raw, fetch_done, processed, process_done, final_report, ana, jac,
                   strip_call, arx>>

NextRestart ==
    \/ FetchWrite
    \/ FetchComplete
    \/ ProcWait
    \/ ProcGlob
    \/ ProcExtract
    \/ ProcOpenOut
    \/ ProcDump
    \/ ProcOpenMarker
    \/ ProcDumpMarker
    \/ ProcCrash
    \/ ProcRestart
    \/ AnaWait
    \/ AnaGlob
    \/ AnaLoad
    \/ AnaReport

SpecRestart == Init /\ [][NextRestart]_vars

\* C13: process_complete.json comes into existence only in a step of a run
\* that has attempted every document, so after a kill before that, and after
\* a restart until then, the marker is absent whatever record files exist;
\* and while the marker is absent the analyzer is at the start of its wait
\* loop and has read and written nothing.
C13_CrashLeavesNoMarker ==
    /\ [][(process_done = Absent /\ process_done' # Absent) =>
             /\ proc.pc = "loop"
             /\ ProcLoopDone(proc)
             /\ AttemptedNames = HtmlNames]_vars
    /\ [](process_done = Absent => ana = AnaStart /\ final_report = Absent)

\* the second run was killed mid-batch too: records exist, the marker does
\* not, the analyzer waits
C13_Witness ==
    /\ proc.pc = "crashed"
    /\ RunOf(proc) = 2
    /\ Len(proc.attempted) < Len(HtmlNames)
    /\ \E n \in DOMAIN processed : processed[n].kind = "json"
    /\ process_done = Absent
    /\ ana = AnaStart

\* C14: a step of the processor leaves the raw documents, the fetch marker
\* and the report as they are; a step of the analyzer leaves the raw
\* documents, the fetch marker, the record files and the process marker as
\* they are; record files and the process marker change only in a step of
\* the processor, the report only in a step of the analyzer; and no raw
\* document, record file or marker is ever deleted.
C14_Ownership ==
    /\ [][(ProcStep \/ proc' # proc) => UNCHANGED <<raw, fetch_done, final_report>>]_vars
    /\ [][(AnaStep \/ ana' # ana) =>
             UNCHANGED <<raw, fetch_done, processed, process_done>>]_vars
    /\ [][(processed' # processed \/ process_done' # process_done) =>
             (ProcStep /\ ana' = ana)]_vars
    /\ [][final_report' # final_report => (AnaStep /\ proc' = proc)]_vars
    /\ [][/\ DOMAIN raw \subseteq DOMAIN raw'
          /\ DOMAIN processed \subseteq DOMAIN processed'
          /\ (fetch_done => fetch_done')
          /\ (process_done # Absent => process_done' # Absent)]_vars

\* both stages have written everything they write
C14_Witness ==
    /\ DOMAIN raw # {}
    /\ \E n \in DOMAIN processed : processed[n].kind = "json"
    /\ process_done.kind = "json"
    /\ proc.pc = "done"
    /\ final_report.kind = "json"
    /\ ana.pc = "done"

(***************************************************************************)
(* The processor run twice over the same raw documents: when the first run *)
(* has ended a second is started.  proc.prev is history: the file list,    *)
(* the attempts, the outputs list and the record files of the first run.   *)
(***************************************************************************)
ProcRerun ==
    /\ proc.pc = "done"
    /\ RunOf(proc) = 1
    /\ proc' = ProcStart @@
                 [run  |-> 2,
                  prev |-> [html_files |-> proc.html_files,
                            attempted  |-> proc.attempted,
                            outputs    |-> proc.processed_files,
                            records    |-> processed]]
    /\ UNCHANGED <<raw, fetch_done, processed, process_done, final_report, ana, jac,
                   strip_call, arx>>

NextTwice ==
    \/ FetchWrite
    \/ FetchComplete
    \/ ProcWait
    \/ ProcGlob
    \/ ProcExtract
    \/ ProcOpenOut
    \/ ProcDump
    \/ ProcOpenMarker
    \/ ProcDumpMarker
    \/ ProcRerun

SpecTwice == Init /\ [][NextTwice]_vars

\* two records agree in every field but processed_at
SameButTime(r1, r2) ==
    /\ r1.type = "object"
    /\ r2.type = "object"
    /\ DOMAIN r1.fields = DOMAIN r2.fields
    /\ \A f \in DOMAIN r1.fields \ {"processed_at"} : r1.fields[f] = r2.fields[f]

TwoRunsEnded == proc.pc = "done" /\ RunOf(proc) > 1

RETRY_MAX == 3

\* how many papers a feed has at most
MaxPapers == 2

HttpCodes == {404, 429, 500}

\* what request.urlopen and resp.read do: a body (well-formed or not), an
\* HTTPError with a status, a URLError, or another exception (a timeout
\* while the body is read)
Responses ==
    {[kind |-> "body", xml_ok |-> TRUE, entries |-> n] : n \in 0..MaxPapers}
    \cup {[kind |-> "body", xml_ok |-> FALSE, entries |-> 0]}
    \cup {[kind |-> "raise", class |-> "HTTPError", code |-> c] : c \in HttpCodes}
    \cup {[kind |-> "raise", class |-> "URLError", code |-> 0],
          [kind |-> "raise", class |-> "TimeoutError", code |-> 0]}

\* sys.argv: its length and the text of its second argument
ArgvInputs ==
    [argc : {3, 4},
     max_results : {[is_int |-> FALSE, val |-> 0]}
                   \cup {[is_int |-> TRUE, val |-> v] : v \in {0, 1, 100, 101}}]

NoResponse == [kind |-> "none"]
PyNone == [kind |-> "None"]

ArxStart(argv) ==
    [pc |-> "start", argv |-> argv, attempt |-> 1, requests |-> 0,
     responses |-> <<>>, proc_log |-> <<>>, fetched |-> "no", raw |-> NoResponse,
     raised |-> "none", papers |-> -1, files |-> {}, status |-> -1]

InitArxiv ==
    /\ raw = EmptyDir
    /\ fetch_done = FALSE
    /\ processed = EmptyDir
    /\ process_done = Absent
    /\ final_report = Absent
    /\ proc = ProcStart
    /\ ana = AnaStart
    /\ jac = JacIdle
    /\ strip_call = StripIdle
    /\ \E argv \in ArgvInputs : arx = ArxStart(argv)

\* the checks of sys.argv, ensure_outdir and the first log line
ArxArgs ==
    /\ arx.pc = "start"
    /\ arx' = IF \/ arx.argv.argc # 4
                 \/ ~arx.argv.max_results.is_int
                 \/ ~(1 <= arx.argv.max_results.val /\ arx.argv.max_results.val <= 100)
              THEN [arx EXCEPT !.pc = "exited", !.status = 1]
              ELSE [arx EXCEPT !.pc = "fetch", !.attempt = 1,
                               !.proc_log = <<"Starting ArXiv query">>]
    /\ UNCHANGED <<raw, fetch_done, processed, process_done, final_report, proc, ana,
                   jac, strip_call>>

\* faulty variant: a 429 is retried whatever the attempt
ShouldRetry_Always(code, attempt) == code = 429

\* if e.code == 429 and attempt < RETRY_MAX
ShouldRetry(code, attempt) == code = 429 /\ attempt < RETRY_MAX

\* one iteration of "for attempt in range(1, RETRY_MAX + 1)": the request,
\* and what follows from its answer; after the last iteration the function
\* is left with None
ArxRequest ==
    /\ arx.pc = "fetch"
    /\ \E resp \in Responses :
          LET sent == [arx EXCEPT !.requests = arx.requests + 1,
                                  !.responses = Append(arx.responses, resp)]
          IN  arx' =
                IF resp.kind = "body"
                THEN [sent EXCEPT !.pc = "parse", !.fetched = "returned", !.raw = resp]
                ELSE IF resp.class = "HTTPError" /\ ShouldRetry(resp.code, arx.attempt)
                THEN IF arx.attempt + 1 <= RETRY_MAX
                     THEN [sent EXCEPT !.attempt = arx.attempt + 1,
                                       !.proc_log = Append(arx.proc_log, "HTTP 429 received")]
                     ELSE [sent EXCEPT !.attempt = arx.attempt + 1,
                                       !.proc_log = Append(arx.proc_log, "HTTP 429 received"),
                                       !.pc = "parse", !.fetched = "returned",
                                       !.raw = PyNone]
                ELSE [sent EXCEPT !.pc = "except", !.fetched = "raised",
                                  !.raised = resp.class]
    /\ UNCHANGED <<raw, fetch_done, processed, process_done, final_report, proc, ana,
                   jac, strip_call>>

\* papers = parse_arxiv_xml(raw, proc_log) and the "Fetched" log line
ArxParse ==
    /\ arx.pc = "parse"
    /\ arx' = IF arx.raw = PyNone
              THEN \* ET.fromstring(None) raises TypeError
                   [arx EXCEPT !.pc = "except", !.raised = "TypeError"]
              ELSE IF ~arx.raw.xml_ok
              THEN [arx EXCEPT !.pc = "analyse", !.papers = 0,
                               !.proc_log = arx.proc_log
                                            \o <<"Invalid XML", "Fetched results">>]
              ELSE [arx EXCEPT !.pc = "analyse", !.papers = arx.raw.entries,
                               !.proc_log = Append(arx.proc_log, "Fetched results")]
    /\ UNCHANGED <<raw, fetch_done, processed, process_done, final_report, proc, ana,
                   jac, strip_call>>

\* the classes an exception class derives from, itself included
Bases(class) ==
    CASE class = "HTTPError"    -> {"HTTPError", "URLError", "OSError", "Exception"}
      [] class = "URLError"     -> {"URLError", "OSError", "Exception"}
      [] class = "TimeoutError" -> {"TimeoutError", "OSError", "Exception"}
      [] class = "TypeError"    -> {"TypeError", "Exception"}

\* the except clauses of main's try statement in their order
ExceptClauses == <<"URLError", "HTTPError", "Exception">>

\* the first clause whose class the exception is an instance of
Handler(class) ==
    ExceptClauses[Min({k \in DOMAIN ExceptClauses : ExceptClauses[k] \in Bases(class)})]

\* the body of the except clause that handles the exception
ArxExcept ==
    /\ arx.pc = "except"
    /\ arx' = CASE Handler(arx.raised) = "URLError" ->
                     [arx EXCEPT !.pc = "exited", !.status = 1,
                                 !.proc_log = Append(arx.proc_log, "Network error (URLError)"),
                                 !.files = arx.files \cup {"processing.log"}]
                [] Handler(arx.raised) = "HTTPError" ->
                     [arx EXCEPT !.pc = "analyse", !.papers = 0,
                                 !.proc_log = Append(arx.proc_log, "HTTPError")]
                [] Handler(arx.raised) = "Exception" ->
                     [arx EXCEPT !.pc = "analyse", !.papers = 0,
                                 !.proc_log = Append(arx.proc_log, "Exception")]
    /\ UNCHANGED <<raw, fetch_done, processed, process_done, final_report, proc, ana,
                   jac, strip_call>>

\* the corpus analysis and the three output files
ArxWrite ==
    /\ arx.pc = "analyse"
    /\ arx' = [arx EXCEPT !.pc = "done", !.status = 0,
                          !.proc_log = Append(arx.proc_log, "Completed processing"),
                          !.files = arx.files \cup {"papers.json", "corpus_analysis.json",
                                                    "processing.log"}]
    /\ UNCHANGED <<raw, fetch_done, processed, process_done, final_report, proc, ana,
                   jac, strip_call>>

NextArxiv ==
    \/ ArxArgs
    \/ ArxRequest
    \/ ArxParse
    \/ ArxExcept
    \/ ArxWrite

SpecArxiv == InitArxiv /\ [][NextArxiv]_vars

ArxEnded == arx.pc \in {"done", "exited"}

\* C16: a run whose request ended in an HTTPError ends with status 0, zero
\* papers and all three output files; a run that ends with status 1 after
\* its request was sent met a URLError that is not an HTTPError.
C16_HttpErrorContinues ==
    /\ (ArxEnded /\ arx.raised = "HTTPError") =>
          /\ arx.status = 0
          /\ arx.papers = 0
          /\ arx.files = {"papers.json", "corpus_analysis.json", "processing.log"}
    /\ (ArxEnded /\ arx.requests > 0 /\ arx.status = 1) => arx.raised = "URLError"

Is429(resp) == resp.kind = "raise" /\ resp.class = "HTTPError" /\ resp.code = 429

CountOfLine(log, line) == Cardinality({k \in DOMAIN log : log[k] = line})

\* C17: fetch_with_retries sends at most RETRY_MAX requests; every request
\* but the last was answered with 429 and logged; while it runs fewer than
\* RETRY_MAX requests have been sent; it returns the body of the first
\* answer that is a body, never None; and it raises at the first answer
\* that is an error other than 429 or at a 429 to request RETRY_MAX.
C17_FetchTerminates ==
    LET n == Len(arx.responses)
    IN  /\ arx.requests = n
        /\ n <= RETRY_MAX
        /\ \A k \in 1..(n - 1) : Is429(arx.responses[k])
        /\ arx.pc = "fetch" =>
              /\ n < RETRY_MAX
              /\ arx.attempt = n + 1
              /\ \A k \in 1..n : Is429(arx.responses[k])
              /\ CountOfLine(arx.proc_log, "HTTP 429 received") = n
        /\ arx.fetched = "returned" =>
              /\ n >= 1
              /\ arx.responses[n].kind = "body"
              /\ arx.raw = arx.responses[n]
              /\ CountOfLine(arx.proc_log, "HTTP 429 received") = n - 1
        /\ arx.fetched = "raised" =>
              /\ n >= 1
              /\ arx.responses[n].kind = "raise"
              /\ (Is429(arx.responses[n]) => n = RETRY_MAX)
              /\ CountOfLine(arx.proc_log, "HTTP 429 received") = n - 1
        /\ (arx.fetched = "no" /\ arx.pc # "fetch") => n = 0

\* two answers 429, then a body
C17_Witness ==
    /\ arx.fetched = "returned"
    /\ arx.requests = RETRY_MAX
    /\ arx.raw.kind = "body"
    /\ arx.pc = "done"

\* C18: once the marker is written, the record files in the processed
\* location are exactly the names of its outputs list, each of them a
\* completely written record, and the files the analyzer enumerates are
\* exactly those names.
C18_RecordsAreOutputs ==
    /\ ProcPastLoop =>
          /\ DOMAIN processed = Range(proc.processed_files)
          /\ \A n \in Range(proc.processed_files) : processed[n].kind = "json"
    /\ process_done.kind = "json" =>
          DOMAIN processed = Range(process_done.value.fields.outputs.items)
    /\ ana.pc \in {"load", "done"} =>
          Range(ana.processed_files) = Range(proc.processed_files)

====
